---------------------------- MODULE Spec2Model ----------------------------
(***************************************************************************)
(* A model of chemprop/data/data.py: SparseNoneArray, MoleculeDatapoint    *)
(* (construction, set_targets, bert_init, recreate_mask) and               *)
(* MoleculeDataset (bert_init, shuffle, chunk, normalize_features,         *)
(* set_targets).                                                           *)
(*                                                                         *)
(* Conventions.  A Python list is a sequence; element i of the list        *)
(* (0-based) is element i+1 of the sequence.  A numpy array indexed by     *)
(* atom index, and nb_indices, are functions on 0..n-1 so that atom        *)
(* indices keep their source values.  An optional value is None (the       *)
(* empty tuple) or Some(x) (the one-element tuple).  Floats are modelled   *)
(* by integers.  Python's True/False in a mask are 1/0 (bool is a subtype  *)
(* of int and True == 1).                                                  *)
(***************************************************************************)
EXTENDS Integers, Sequences, FiniteSets, TLC

VARIABLES
  sna,        \* the SparseNoneArray under test
  sna_out,    \* outcome of the last SparseNoneArray.__getitem__ call
  datasets,   \* the MoleculeDataset objects, by identity
  call,       \* outcome of the last dataset-level call
  pyrand,     \* state of Python's module-level generator (random)
  shuf,       \* per dataset: the last shuffle, its seed and the order it found
  ncalls,     \* per dataset: the normalize_features calls made
  rm,         \* frame of the running MoleculeDatapoint.recreate_mask
  bi          \* position of the running MoleculeDataset.bert_init

sparseVars == <<sna, sna_out>>
dataVars   == <<datasets, call, pyrand, shuf, ncalls>>
maskVars   == <<rm>>
bertVars   == <<bi>>

vars == <<sna, sna_out, datasets, call, pyrand, shuf, ncalls, rm, bi>>

-----------------------------------------------------------------------------
(* Python values *)

None == <<>>
Some(x) == <<x>>
Val(o) == o[1]

NoError == "ok"

\* values of the variables a specification does not use
NoCall     == [op |-> "none"]
NoShuffle  == [done |-> FALSE, seed |-> <<>>, pre |-> <<>>]
NoShuffles == [ds \in {1, 2} |-> NoShuffle]
NoCalls    == [ds \in {1, 2} |-> 0]
NoFrame    == [pc |-> "none"]
NoBertInit == [pc |-> "none"]

\* the module-level generator before any random.seed(seed): seeded from
\* system entropy, so each draw may be any value of its range
Unseeded == [seeded |-> FALSE, seed |-> 0, k |-> 0]

-----------------------------------------------------------------------------
(* Bounds *)

\* longest target list of a datapoint / SparseNoneArray
MaxTargets == 3

\* target values read from a CSV line, as floats
Floats == {1, 2}

OptFloats == {None} \cup {Some(x) : x \in Floats}

RECURSIVE SeqsUpTo(_, _)
SeqsUpTo(S, n) ==
  IF n = 0 THEN {<<>>}
  ELSE LET shorter == SeqsUpTo(S, n - 1)
       IN  shorter \cup {Append(s, x) : s \in {t \in shorter : Len(t) = n - 1}, x \in S}

TargetLists == SeqsUpTo(OptFloats, MaxTargets)

-----------------------------------------------------------------------------
(* SparseNoneArray *)

\* __init__: length, and a defaultdict holding the entries that are not None
SparseNoneArray(targets) ==
  [length  |-> Len(targets),
   targets |-> [i \in {j \in 0..(Len(targets) - 1) : targets[j + 1] # None}
                  |-> targets[i + 1]]]

\* __len__
SparseLen(self) == self.length

\* defaultdict(lambda: None).__getitem__: a missing key is inserted with the
\* default and the default is returned
DefaultDictGet(d, i) ==
  IF i \in DOMAIN d
    THEN [value |-> d[i], dict |-> d]
    ELSE [value |-> None, dict |-> (i :> None) @@ d]

\* the bounds test of __getitem__
SparseOutOfRange(self, i) == i >= self.length

\* __getitem__: the result and the array afterwards
SparseGetItem(self, i) ==
  IF SparseOutOfRange(self, i)
    THEN [raised |-> "IndexError", value |-> None, self |-> self]
    ELSE LET r == DefaultDictGet(self.targets, i)
         IN  [raised |-> NoError, value |-> r.value,
              self |-> [self EXCEPT !.targets = r.dict]]

SparseIndices == (0 - MaxTargets - 1)..(MaxTargets + 1)

SparseInit ==
  /\ datasets = <<>> /\ call = NoCall /\ shuf = NoShuffles /\ ncalls = NoCalls /\ pyrand = Unseeded
  /\ rm = NoFrame /\ bi = NoBertInit
  /\ \E targets \in TargetLists : sna = SparseNoneArray(targets)
  /\ sna_out = [called |-> FALSE, i |-> 0, raised |-> NoError, value |-> None,
                before |-> sna]

GetItem(i) ==
  LET r == SparseGetItem(sna, i)
  IN  /\ sna' = r.self
      /\ sna_out' = [called |-> TRUE, i |-> i, raised |-> r.raised,
                     value |-> r.value, before |-> sna]
      /\ UNCHANGED <<dataVars, maskVars, bertVars>>

SparseNext == \E i \in SparseIndices : GetItem(i)

SpecSparse == SparseInit /\ [][SparseNext]_vars

\* no SparseNoneArray under test
SparseIdle ==
  /\ sna = SparseNoneArray(<<>>)
  /\ sna_out = [called |-> FALSE, i |-> 0, raised |-> NoError, value |-> None,
                before |-> sna]

\* C3: get(i) returns the stored value for a set index, None for an unset
\* index in 0 <= i < length, and raises IndexError for every out-of-range
\* index, both i >= length and i < 0.
C3_GetContract ==
  sna_out.called =>
    LET i == sna_out.i
        a == sna_out.before
    IN  IF 0 <= i /\ i < a.length
          THEN /\ sna_out.raised = NoError
               /\ sna_out.value = (IF i \in DOMAIN a.targets THEN a.targets[i] ELSE None)
          ELSE sna_out.raised = "IndexError"

-----------------------------------------------------------------------------
(* MoleculeDatapoint: construction and set_targets *)

\* largest number of datapoints of a dataset
MaxData == 2

\* most label fields of a CSV line
MaxFields == 2

\* longest list handed to MoleculeDatapoint.set_targets
MaxSetLen == 2

\* float(x) for the label strings of a line
Float(x) == CASE x = "1" -> 1 [] x = "2" -> 2

\* chemprop.features: one generator call
FeatureGenerator(fg, smiles) ==
  CASE fg = "morgan"       -> <<1, 0>>
    [] fg = "morgan_count" -> <<2, 0>>
    [] fg = "rdkit_2d"     -> <<3>>

\* lines 73-83: the generated sub-vectors, concatenated in list order
RECURSIVE GenerateFeatures(_, _)
GenerateFeatures(fgs, smiles) ==
  IF fgs = <<>> THEN [raised |-> NoError, features |-> <<>>]
  ELSE IF Head(fgs) \notin {"morgan", "morgan_count", "rdkit_2d"}
    THEN [raised |-> "ValueError", features |-> <<>>]
    ELSE LET rest == GenerateFeatures(Tail(fgs), smiles)
         IN  [raised |-> rest.raised,
              features |-> FeatureGenerator(Head(fgs), smiles) \o rest.features]

\* a value of the attribute targets: a list of optional floats, the features
\* vector (predict_features), a SparseNoneArray, or None
ListTargets(items) == [kind |-> "list", items |-> items, arr |-> SparseNoneArray(<<>>)]
FeatureTargets(f)  == [kind |-> "features", items |-> f, arr |-> SparseNoneArray(<<>>)]
SparseTargets(a)   == [kind |-> "sparse", items |-> <<>>, arr |-> a]
NoneTargets        == [kind |-> "none", items |-> <<>>, arr |-> SparseNoneArray(<<>>)]

\* the elements of a list of targets as optional floats (a feature is never None)
AsOptionals(t) ==
  IF t.kind = "features" THEN [i \in 1..Len(t.items) |-> Some(t.items[i])] ELSE t.items

\* len(targets); len(None) raises TypeError
HasLen(t) == t.kind # "none"
PyLen(t) == IF t.kind = "sparse" THEN SparseLen(t.arr) ELSE Len(t.items)

\* lines 85-97: num_tasks and targets of a new datapoint
\* (label fields are line[1:], after the compound name was dropped)
InitialTargets(args, fields, features) ==
  IF args # None /\ Val(args).dataset_type \in {"unsupervised", "bert_pretraining"}
    THEN [raised |-> NoError, num_tasks |-> 1, targets |-> ListTargets(<<None>>)]
    ELSE LET predict_features == args # None /\ Val(args).predict_features
             sparse == args # None /\ Val(args).sparse
             targets ==
               IF predict_features
                 THEN (IF features = None THEN NoneTargets
                       ELSE FeatureTargets(Val(features)))
                 ELSE ListTargets([i \in 1..Len(fields) |->
                        IF fields[i] # "" THEN Some(Float(fields[i])) ELSE None])
         IN  IF ~HasLen(targets)
               THEN [raised |-> "TypeError", num_tasks |-> 0, targets |-> targets]
               ELSE [raised |-> NoError, num_tasks |-> PyLen(targets),
                     targets |-> IF sparse
                                   THEN SparseTargets(SparseNoneArray(AsOptionals(targets)))
                                   ELSE targets]

\* MoleculeDatapoint.__init__; feature vectors are kept one-dimensional, so
\* np.squeeze (line 68) has nothing to do
MoleculeDatapoint(line, args, features, use_compound_names) ==
  LET features_generator == IF args # None THEN Val(args).features_generator ELSE None
      rest  == IF use_compound_names THEN Tail(line) ELSE line
      gen   == IF features_generator # None
                 THEN GenerateFeatures(Val(features_generator), rest[1])
                 ELSE [raised |-> NoError, features |-> <<>>]
      feats == IF features_generator # None THEN Some(gen.features) ELSE features
      tg    == InitialTargets(args, Tail(rest), feats)
      raised ==
        IF features # None /\ features_generator # None THEN "ValueError"
        ELSE IF gen.raised # NoError THEN gen.raised
        ELSE tg.raised
  IN  [raised |-> raised,
       self |->
         [compound_name    |-> IF use_compound_names THEN Some(line[1]) ELSE None,
          smiles           |-> rest[1],
          features         |-> feats,
          targets          |-> tg.targets,
          num_tasks        |-> tg.num_tasks,
          bert_pretraining |-> args # None /\ Val(args).dataset_type = "bert_pretraining",
          bert_mask_prob   |-> IF args # None THEN Some(Val(args).bert_mask_prob) ELSE None,
          bert_mask_type   |-> IF args # None THEN Some(Val(args).bert_mask_type) ELSE None,
          vocab_targets    |-> None,
          nb_indices       |-> None,
          mask             |-> None]]

\* MoleculeDatapoint.set_targets
DatapointSetTargets(self, targets) == [self EXCEPT !.targets = targets]

-----------------------------------------------------------------------------
(* MoleculeDataset: construction and set_targets *)

DatasetIds == {1, 2}

\* MoleculeDataset.__init__
MoleculeDataset(data) ==
  [data             |-> data,
   bert_pretraining |-> IF Len(data) > 0 THEN data[1].bert_pretraining ELSE FALSE,
   features_size    |-> IF Len(data) > 0 /\ data[1].features # None
                          THEN Some(Len(Val(data[1].features))) ELSE None,
   scaler           |-> None]

\* MoleculeDataset.set_targets: the assert, then one set_targets per datapoint
DatasetSetTargets(self, targets) ==
  IF Len(self.data) # Len(targets)
    THEN [raised |-> "AssertionError", self |-> self]
    ELSE [raised |-> NoError,
          self |-> [self EXCEPT !.data =
                      [i \in 1..Len(self.data) |->
                         DatapointSetTargets(self.data[i], targets[i])]]]

\* MoleculeDataset.num_tasks
DatasetNumTasks(self) ==
  IF Len(self.data) > 0 THEN Some(self.data[1].num_tasks) ELSE None

(* the arguments and lines of the targets specification *)

SmilesOf(i) == CASE i = 1 -> "CC" [] i = 2 -> "C" [] i = 3 -> "N" [] OTHER -> "O"

TargetArgs ==
  {None} \cup
  {Some([dataset_type |-> t, features_generator |-> g, predict_features |-> p,
         sparse |-> s, bert_mask_prob |-> 1, bert_mask_type |-> "random",
         sequential |-> TRUE]) :
     t \in {"regression", "unsupervised", "bert_pretraining"},
     g \in {None, Some(<<"morgan">>)},
     p \in BOOLEAN, s \in BOOLEAN}

FieldLists == SeqsUpTo({"", "1"}, MaxFields)

SetTargetValues == {ListTargets(t) : t \in SeqsUpTo({None, Some(2)}, MaxSetLen)}

\* the datapoints of the lines, when every construction succeeds
Construct(lines, args) ==
  [i \in 1..Len(lines) |-> MoleculeDatapoint(lines[i], args, None, FALSE)]

TargetsInit ==
  /\ SparseIdle
  /\ pyrand = Unseeded /\ rm = NoFrame /\ bi = NoBertInit
  /\ call = NoCall /\ shuf = NoShuffles /\ ncalls = NoCalls
  /\ \E args \in TargetArgs, n \in 0..MaxData, k \in 0..MaxFields :
       \E fields \in [1..n -> {f \in FieldLists : Len(f) = k}] :
         LET made == Construct([i \in 1..n |-> <<SmilesOf(i)>> \o fields[i]], args)
         IN  /\ \A i \in 1..n : made[i].raised = NoError
             /\ datasets = [ds \in DatasetIds |->
                              IF ds = 1 THEN MoleculeDataset([i \in 1..n |-> made[i].self])
                              ELSE MoleculeDataset(<<>>)]

\* d.set_targets(targets) on one datapoint of a dataset
SetTargetsOfDatapoint(ds, i, targets) ==
  /\ i \in 1..Len(datasets[ds].data)
  /\ datasets' = [datasets EXCEPT ![ds].data[i] = DatapointSetTargets(@, targets)]
  /\ call' = [op |-> "set_targets", ds |-> ds, raised |-> NoError]
  /\ UNCHANGED <<sparseVars, pyrand, shuf, ncalls, maskVars, bertVars>>

\* dataset.set_targets(targets)
SetTargetsOfDataset(ds, targets) ==
  LET r == DatasetSetTargets(datasets[ds], targets)
  IN  /\ datasets' = [datasets EXCEPT ![ds] = r.self]
      /\ call' = [op |-> "set_targets", ds |-> ds, raised |-> r.raised]
      /\ UNCHANGED <<sparseVars, pyrand, shuf, ncalls, maskVars, bertVars>>

TargetsNext ==
  \/ \E ds \in DatasetIds, i \in 1..MaxData, t \in SetTargetValues :
       SetTargetsOfDatapoint(ds, i, t)
  \/ \E ds \in DatasetIds, n \in 0..MaxData :
       \E ts \in [1..n -> SetTargetValues] : SetTargetsOfDataset(ds, ts)

SpecTargets == TargetsInit /\ [][TargetsNext]_vars

\* C4: in every state reachable by construction followed by set_targets
\* calls, num_tasks == len(targets) for every datapoint, except in
\* self-supervised mode, where num_tasks == 1.
C4_NumTasksIsLenTargets ==
  \A ds \in DatasetIds : \A i \in 1..Len(datasets[ds].data) :
    LET d == datasets[ds].data[i]
    IN  IF d.bert_pretraining THEN d.num_tasks = 1
        ELSE HasLen(d.targets) /\ d.num_tasks = PyLen(d.targets)

-----------------------------------------------------------------------------
(* The random sources.  random (Python) is a deterministic stream once    *)
(* random.seed(seed) has run; numpy's np.random is a second, separate      *)
(* generator that this file never seeds, so each np.random draw may be any *)
(* value of its range.                                                     *)

\* the seeded stream repeats after PyPeriod draws
PyPeriod == 3

\* seeds a caller may pass
Seeds == {1, 2}

\* np.random.random() and np.random.rand() return r / RandResolution,
\* r in 0..RandResolution-1; bert_mask_prob is p / RandResolution
RandResolution == 3

\* random.seed(seed)
PySeed(seed) == [seeded |-> TRUE, seed |-> seed, k |-> 0]

PyStates == {Unseeded} \cup {[seeded |-> TRUE, seed |-> s, k |-> k] : s \in Seeds, k \in 0..(PyPeriod - 1)}

\* the k-th output of the stream of a seed
PyStream(seed, k) == (seed + 1) * (k + 2) + k * k

\* random.randint(a, b), a <= b: the possible (value, next state) pairs
PyRandint(st, a, b) ==
  IF st.seeded
    THEN {[value |-> a + (PyStream(st.seed, st.k) % (b - a + 1)),
           st |-> [st EXCEPT !.k = (@ + 1) % PyPeriod]]}
    ELSE {[value |-> v, st |-> st] : v \in a..b}

\* np.random.random() / one entry of np.random.rand(n), as r
NpRandom == 0..(RandResolution - 1)

\* np.random.randint(n), n >= 1
NpRandint(n) == 0..(n - 1)

-----------------------------------------------------------------------------
(* MoleculeDatapoint.recreate_mask, one frame per call.  A frame holds the *)
(* datapoint (self), the generator state it reads (py), its position (pc), *)
(* its locals (atoms, it) and a record of what the call did (picks,        *)
(* removed, forced, last).                                                 *)

NoPass == [valid |-> FALSE, index |-> 0, nb_len |-> 0, nbr_index |-> 0, before |-> <<>>]

\* the frame on entry to self.recreate_mask()
RMCall(self, py) ==
  [pc |-> "call", self |-> self, py |-> py, raised |-> NoError,
   atoms |-> {}, it |-> 0, picks |-> <<>>, removed |-> {}, forced |-> None,
   last |-> NoPass]

RMRaise(f, exc) == [f EXCEPT !.pc = "raised", !.raised = exc]

NumTargets(f) == Len(Val(f.self.vocab_targets))
Atoms(f) == 0..(NumTargets(f) - 1)
Mask(f) == Val(f.self.mask)
Nb(f, atom) == Val(f.self.nb_indices)[atom]

\* set(neighbors)
SetOf(list) == {list[i] : i \in 1..Len(list)}

\* cluster = [atom] + neighbors, as the positions self.mask[cluster] writes
Cluster(atom, neighbors) == {atom} \cup SetOf(neighbors)

\* self.mask[cluster] = 0
MaskCluster(mask, cluster) == [a \in DOMAIN mask |-> IF a \in cluster THEN 0 ELSE mask[a]]

RECURSIVE SumOver(_, _)
SumOver(mask, S) ==
  IF S = {} THEN 0
  ELSE LET a == CHOOSE x \in S : TRUE IN mask[a] + SumOver(mask, S \ {a})

\* sum(self.mask) == len(self.mask), never taken
AllOnes_Never(mask) == FALSE

\* sum(self.mask) == len(self.mask)
AllOnes(mask) == SumOver(mask, DOMAIN mask) = Cardinality(DOMAIN mask)

\* np.random.rand(num_targets) > self.bert_mask_prob: every array it can give
RandMasks(n, prob) ==
  LET Entries == {IF r > prob THEN 1 ELSE 0 : r \in NpRandom}
  IN  [0..(n - 1) -> Entries]

\* lines 109-115, 134-135, 148-149, 155-156
RMEnter(f) ==
  IF ~f.self.bert_pretraining THEN {RMRaise(f, "Exception")}
  ELSE IF f.self.vocab_targets = None THEN {RMRaise(f, "AttributeError")}
  ELSE LET n == NumTargets(f)
           prob == Val(f.self.bert_mask_prob)
           type == Val(f.self.bert_mask_type)
       IN  CASE type = "cluster" ->
                  {[f EXCEPT !.pc = "cluster", !.atoms = 0..(n - 1),
                             !.self.mask = Some([a \in 0..(n - 1) |-> 1])]}
             [] type = "correlation" ->
                  {[f EXCEPT !.pc = "correlation", !.it = 0, !.self.mask = Some(m)] :
                     m \in RandMasks(n, prob)}
             [] type = "random" ->
                  {[f EXCEPT !.pc = "ensure", !.self.mask = Some(m)] :
                     m \in RandMasks(n, prob)}
             [] OTHER -> {RMRaise(f, "ValueError")}

\* atoms -= set(neighbors), left out
RemoveNeighbors_Kept(atoms, neighbors) == atoms

\* atoms -= set(neighbors)
RemoveNeighbors(atoms, neighbors) == atoms \ SetOf(neighbors)

\* np.random.random() < self.bert_mask_prob / len(cluster), in units of
\* 1 / RandResolution
DrawSucceeds(r, prob, cluster_len) == r * cluster_len < prob

\* lines 117-125: one iteration of the while loop
RMClusterPass(f) ==
  {LET neighbors == Nb(f, atom)
       popped == f.atoms \ {atom}
       hit == DrawSucceeds(r, Val(f.self.bert_mask_prob), 1 + Len(neighbors))
       pick == [atom |-> atom, removed |-> f.removed, hit |-> hit]
   IN  IF hit
         THEN [f EXCEPT !.self.mask = Some(MaskCluster(Mask(f), Cluster(atom, neighbors))),
                        !.atoms = RemoveNeighbors(popped, neighbors),
                        !.picks = Append(@, pick),
                        !.removed = @ \cup SetOf(neighbors)]
         ELSE [f EXCEPT !.atoms = popped, !.picks = Append(@, pick)] :
   atom \in f.atoms, r \in NpRandom}

\* lines 127-132: ensure at least one cluster of 0s
RMClusterEnsure(f) ==
  IF AllOnes(Mask(f))
    THEN IF NumTargets(f) = 0 THEN {RMRaise(f, "ValueError")}
         ELSE {[f EXCEPT !.pc = "to_list", !.forced = Some(atom),
                         !.self.mask = Some(MaskCluster(Mask(f), Cluster(atom, Nb(f, atom))))] :
                 atom \in NpRandint(NumTargets(f))}
    ELSE {[f EXCEPT !.pc = "to_list"]}

\* line 142: the position whose mask value is copied
CopiedFrom(neighbors, nbr_index) == nbr_index

\* lines 138-142: one iteration of the for loop
RMCorrelationPass(f) ==
  LET n == NumTargets(f)
      first == PyRandint(f.py, 0, n - 1)
  IN  UNION {
        LET index_to_change == d1.value
            neighbors == Nb(f, index_to_change)
        IN  IF Len(neighbors) > 0
              THEN {LET nbr_index == d2.value
                    IN  [f EXCEPT !.it = @ + 1, !.py = d2.st,
                                  !.self.mask = Some([Mask(f) EXCEPT ![index_to_change] =
                                                   Mask(f)[CopiedFrom(neighbors, nbr_index)]]),
                                  !.last = [valid |-> TRUE, index |-> index_to_change,
                                            nb_len |-> Len(neighbors),
                                            nbr_index |-> nbr_index, before |-> Mask(f)]] :
                    d2 \in PyRandint(d1.st, 0, Len(neighbors) - 1)}
              ELSE {[f EXCEPT !.it = @ + 1, !.py = d1.st,
                              !.last = [valid |-> TRUE, index |-> index_to_change,
                                        nb_len |-> 0, nbr_index |-> 0, before |-> Mask(f)]]} :
        d1 \in first}

\* lines 144-146 and 151-153: ensure at least one 0
RMEnsure(f) ==
  IF AllOnes(Mask(f))
    THEN IF NumTargets(f) = 0 THEN {RMRaise(f, "ValueError")}
         ELSE {[f EXCEPT !.pc = "to_list", !.forced = Some(atom),
                         !.self.mask = Some([Mask(f) EXCEPT ![atom] = 0])] :
                 atom \in NpRandint(NumTargets(f))}
    ELSE {[f EXCEPT !.pc = "to_list"]}

\* list(self.mask): the array by atom index as a Python list
ListOf(array) == [i \in 1..Cardinality(DOMAIN array) |-> array[i - 1]]

\* line 159
RMToList(f) == {[f EXCEPT !.pc = "done", !.self.mask = Some(ListOf(Mask(f)))]}

RMRunning(f) == f.pc \notin {"done", "raised"}

\* the frames one step after f
RMNext(f) ==
  CASE f.pc = "call" -> RMEnter(f)
    [] f.pc = "cluster" -> IF f.atoms # {} THEN RMClusterPass(f) ELSE RMClusterEnsure(f)
    [] f.pc = "correlation" ->
         IF f.it < NumTargets(f) THEN RMCorrelationPass(f) ELSE RMEnsure(f)
    [] f.pc = "ensure" -> RMEnsure(f)
    [] f.pc = "to_list" -> RMToList(f)
    [] OTHER -> {}

\* the frames a call can end in (returned or raised)
RECURSIVE RMRun(_)
RMRun(frames) ==
  IF \A f \in frames : ~RMRunning(f) THEN frames
  ELSE RMRun(UNION {IF RMRunning(f) THEN RMNext(f) ELSE {f} : f \in frames})

\* self.recreate_mask(): every outcome, as (self, py, raised)
RecreateMask(self, py) ==
  {[self |-> f.self, py |-> f.py, raised |-> f.raised] : f \in RMRun({RMCall(self, py)})}

-----------------------------------------------------------------------------
(* recreate_mask on one initialized datapoint *)

\* most atoms of a molecule
MaxAtoms == 3

RECURSIVE SortedList(_)
SortedList(S) ==
  IF S = {} THEN <<>>
  ELSE LET lo == CHOOSE x \in S : \A y \in S : x <= y
       IN  <<lo>> \o SortedList(S \ {lo})

\* Vocab.smiles2indices: the neighbor lists of a molecule with n atoms and
\* the given bonds
NbIndices(n, bonds) ==
  [a \in 0..(n - 1) |-> SortedList({b \in 0..(n - 1) : {a, b} \in bonds})]

\* every molecule of n atoms: any set of bonds between distinct atoms
Molecules(n) ==
  LET Pairs == {{a, b} : a \in 0..(n - 1), b \in 0..(n - 1)} \ {{a} : a \in 0..(n - 1)}
  IN  {[vocab_targets |-> [i \in 1..n |-> 1], nb_indices |-> NbIndices(n, bonds)] :
         bonds \in SUBSET Pairs}

MaskTypes == {"cluster", "correlation", "random"}

BertArgs(type, prob) ==
  Some([dataset_type |-> "bert_pretraining", features_generator |-> None,
        predict_features |-> FALSE, sparse |-> FALSE,
        bert_mask_prob |-> prob, bert_mask_type |-> type, sequential |-> TRUE])

\* line 103: the datapoint with what smiles2indices returned
WithVocab(self, mol) ==
  [self EXCEPT !.vocab_targets = Some(mol.vocab_targets),
               !.nb_indices = Some(mol.nb_indices)]

MaskInit ==
  /\ SparseIdle
  /\ datasets = <<>> /\ call = NoCall /\ shuf = NoShuffles /\ ncalls = NoCalls /\ pyrand = Unseeded /\ bi = NoBertInit
  /\ \E type \in MaskTypes \cup {"unsupported"}, prob \in 0..RandResolution,
        n \in 0..MaxAtoms :
       \E mol \in Molecules(n) :
         rm = RMCall(WithVocab(MoleculeDatapoint(<<"C">>, BertArgs(type, prob),
                                                 None, FALSE).self, mol), pyrand)

MaskStep(pc) ==
  /\ rm.pc = pc
  /\ rm' \in RMNext(rm)
  /\ UNCHANGED <<sparseVars, dataVars, bertVars>>

Enter == rm.pc = "call" /\ MaskStep("call")
ClusterPass == rm.pc = "cluster" /\ rm.atoms # {} /\ MaskStep("cluster")
ClusterEnsure == rm.pc = "cluster" /\ rm.atoms = {} /\ MaskStep("cluster")
CorrelationPass ==
  rm.pc = "correlation" /\ rm.it < NumTargets(rm) /\ MaskStep("correlation")
CorrelationEnsure ==
  rm.pc = "correlation" /\ rm.it >= NumTargets(rm) /\ MaskStep("correlation")
RandomEnsure == rm.pc = "ensure" /\ MaskStep("ensure")
ToList == rm.pc = "to_list" /\ MaskStep("to_list")

MaskNext ==
  \/ Enter
  \/ ClusterPass
  \/ ClusterEnsure
  \/ CorrelationPass
  \/ CorrelationEnsure
  \/ RandomEnsure
  \/ ToList

SpecMask == MaskInit /\ [][MaskNext]_vars

MaskType(f) == Val(f.self.bert_mask_type)

\* C1: whenever recreate_mask completes under one of the three policies, the
\* mask has exactly len(vocab_targets) entries, each 0 or 1, and at least one
\* entry is 0.
C1_MaskShape ==
  (rm.pc = "done" /\ MaskType(rm) \in MaskTypes) =>
    LET mask == Val(rm.self.mask)
    IN  /\ Len(mask) = Len(Val(rm.self.vocab_targets))
        /\ \A i \in 1..Len(mask) : mask[i] \in {0, 1}
        /\ \E i \in 1..Len(mask) : mask[i] = 0

\* a call that found the mask all 1 and forced a 0 on a molecule of several atoms
C1_Witness ==
  /\ rm.pc = "done"
  /\ MaskType(rm) = "correlation"
  /\ rm.forced # None
  /\ Len(Val(rm.self.mask)) >= 2

PickedAtoms(f) == {f.picks[k].atom : k \in 1..Len(f.picks)}
HitAtoms(f) == {f.picks[k].atom : k \in {j \in 1..Len(f.picks) : f.picks[j].hit}}

\* C9: under the cluster policy each atom is picked at most once and never
\* after it was removed as a neighbor of a masked cluster; the loop ends after
\* at most num_targets picks with every atom processed; the masked positions
\* of the final mask are exactly the union of the complete clusters of the
\* atoms whose draw succeeded or, when none succeeded, the one complete
\* cluster of the force-masked atom.
C9_ClusterMask ==
  (rm.pc \in {"cluster", "to_list", "done"} /\ MaskType(rm) = "cluster") =>
    /\ \A j, k \in 1..Len(rm.picks) : j # k => rm.picks[j].atom # rm.picks[k].atom
    /\ \A k \in 1..Len(rm.picks) : rm.picks[k].atom \notin rm.picks[k].removed
    /\ Len(rm.picks) <= NumTargets(rm)
    /\ (rm.atoms = {} => PickedAtoms(rm) \cup rm.removed = Atoms(rm))
    /\ rm.pc = "done" =>
         LET mask == Val(rm.self.mask)
             zeros == {a \in Atoms(rm) : mask[a + 1] = 0}
         IN  IF HitAtoms(rm) # {}
               THEN /\ rm.forced = None
                    /\ zeros = UNION {Cluster(a, Nb(rm, a)) : a \in HitAtoms(rm)}
               ELSE /\ rm.forced # None
                    /\ zeros = Cluster(Val(rm.forced), Nb(rm, Val(rm.forced)))

\* a finished cluster call in which a draw succeeded on an atom with
\* neighbors, so that fewer picks than atoms were made
C9_Witness ==
  /\ rm.pc = "done"
  /\ MaskType(rm) = "cluster"
  /\ \E a \in HitAtoms(rm) : Len(Nb(rm, a)) > 0
  /\ Len(rm.picks) < NumTargets(rm)
  /\ Len(rm.picks) >= 2

\* C10: a correlation pass that picks an atom i with a neighbor overwrites
\* mask[i] with the current mask value of a member of nb_indices[i]; a pass
\* that picks an atom without neighbors leaves the mask unchanged; no pass
\* writes a position other than the picked atom.
C10_CopiesANeighbor ==
  (rm.pc = "correlation" /\ rm.last.valid) =>
    LET i == rm.last.index
        before == rm.last.before
        mask == Mask(rm)
    IN  /\ \A a \in Atoms(rm) \ {i} : mask[a] = before[a]
        /\ IF rm.last.nb_len > 0
             THEN \E j \in SetOf(Nb(rm, i)) : mask[i] = before[j]
             ELSE mask[i] = before[i]

-----------------------------------------------------------------------------
(* MoleculeDataset.shuffle and MoleculeDataset.chunk *)

\* most chunks asked of chunk()
MaxChunks == 3

\* x[i], x[j] = x[j], x[i] on a list (0-based i, j)
Swap(x, i, j) == [x EXCEPT ![i + 1] = x[j + 1], ![j + 1] = x[i + 1]]

\* random.shuffle(x): for i in reversed(range(1, len(x))): j = randbelow(i + 1);
\* swap x[i], x[j].  The possible (list, generator state) pairs from index i down.
RECURSIVE PyShuffleFrom(_, _, _)
PyShuffleFrom(x, i, st) ==
  IF i < 1 THEN {[list |-> x, st |-> st]}
  ELSE UNION {PyShuffleFrom(Swap(x, i, d.value), i - 1, d.st) :
                d \in PyRandint(st, 0, i)}

PyShuffle(x, st) == PyShuffleFrom(x, Len(x) - 1, st)

\* line 244-245, left out
SeedIfGiven_Ignored(seed, st) == st

\* lines 244-245: if seed is not None: random.seed(seed)
SeedIfGiven(seed, st) == IF seed # None THEN PySeed(Val(seed)) ELSE st

\* lines 250-251: d.recreate_mask() for the datapoints from index i on; an
\* exception ends the loop
RECURSIVE RecreateMasksFrom(_, _, _)
RecreateMasksFrom(data, i, st) ==
  IF i > Len(data) THEN {[data |-> data, st |-> st, raised |-> NoError]}
  ELSE UNION {IF r.raised # NoError
                THEN {[data |-> [data EXCEPT ![i] = r.self], st |-> r.py,
                       raised |-> r.raised]}
                ELSE RecreateMasksFrom([data EXCEPT ![i] = r.self], i + 1, r.py) :
              r \in RecreateMask(data[i], st)}

\* MoleculeDataset.shuffle: every outcome, as (self, py, raised)
DatasetShuffle(self, seed, py) ==
  UNION {IF self.bert_pretraining
           THEN {[self |-> [self EXCEPT !.data = r.data], py |-> r.st, raised |-> r.raised] :
                   r \in RecreateMasksFrom(s.list, 1, s.st)}
           ELSE {[self |-> [self EXCEPT !.data = s.list], py |-> s.st, raised |-> NoError]} :
         s \in PyShuffle(self.data, SeedIfGiven(seed, py))}

\* math.ceil(n / num_chunks), num_chunks >= 1, rounded down instead
ChunkLen_Floor(n, num_chunks) == n \div num_chunks

\* math.ceil(n / num_chunks), num_chunks >= 1
ChunkLen(n, num_chunks) == (n + num_chunks - 1) \div num_chunks

\* data[lo:hi], 0 <= lo <= hi
Slice(data, lo, hi) ==
  LET last == IF hi < Len(data) THEN hi ELSE Len(data)
  IN  IF lo >= last THEN <<>> ELSE SubSeq(data, lo + 1, last)

\* lines 255-260, after the shuffle
Chunks(data, num_chunks) ==
  LET chunk_len == ChunkLen(Len(data), num_chunks)
  IN  [c \in 1..num_chunks |->
         MoleculeDataset(Slice(data, (c - 1) * chunk_len, c * chunk_len))]

\* MoleculeDataset.chunk: every outcome, as (self, py, raised, result)
DatasetChunk(self, num_chunks, seed, py) ==
  {IF s.raised # NoError THEN [self |-> s.self, py |-> s.py, raised |-> s.raised, result |-> <<>>]
   ELSE IF num_chunks = 0
     THEN [self |-> s.self, py |-> s.py, raised |-> "ZeroDivisionError", result |-> <<>>]
     ELSE [self |-> s.self, py |-> s.py, raised |-> NoError,
           result |-> Chunks(s.self.data, num_chunks)] :
   s \in DatasetShuffle(self, seed, py)}

\* MoleculeDataset.smiles
DatasetSmiles(self) == [i \in 1..Len(self.data) |-> self.data[i].smiles]

\* MoleculeDataset.mask: the datapoints' masks, concatenated in dataset order
RECURSIVE Concat(_)
Concat(lists) == IF lists = <<>> THEN <<>> ELSE Head(lists) \o Concat(Tail(lists))

DatasetMask(self) == Concat([i \in 1..Len(self.data) |-> Val(self.data[i].mask)])

OptSeeds == {None} \cup {Some(s) : s \in Seeds}

\* Vocab.smiles2indices for the molecules of the datasets: a chain of atoms,
\* one per letter of the SMILES string
Smiles2Indices(smiles) ==
  LET n == CASE smiles = "" -> 0 [] smiles = "CC" -> 2 [] smiles = "CCO" -> 3
             [] OTHER -> 1
  IN  [vocab_targets |-> [i \in 1..n |-> i],
       nb_indices |-> NbIndices(n, {{a, a + 1} : a \in 0..(n - 2)})]

\* MoleculeDatapoint.bert_init(args), args.vocab being the vocabulary above:
\* every outcome, as (self, py, raised)
DatapointBertInit(self, py) ==
  IF ~self.bert_pretraining
    THEN {[self |-> self, py |-> py, raised |-> "Exception"]}
    ELSE RecreateMask(WithVocab(self, Smiles2Indices(self.smiles)), py)

\* d.bert_init(args) for the datapoints from index i on; an exception ends the loop
RECURSIVE BertInitFrom(_, _, _)
BertInitFrom(data, i, st) ==
  IF i > Len(data) THEN {[data |-> data, st |-> st, raised |-> NoError]}
  ELSE UNION {IF r.raised # NoError
                THEN {[data |-> [data EXCEPT ![i] = r.self], st |-> r.py,
                       raised |-> r.raised]}
                ELSE BertInitFrom([data EXCEPT ![i] = r.self], i + 1, r.py) :
              r \in DatapointBertInit(data[i], st)}

ShuffleArgs == {None} \cup {BertArgs(type, 1) : type \in MaskTypes}

\* single-atom molecules
AtomOf(i) == CASE i = 1 -> "C" [] i = 2 -> "N" [] i = 3 -> "O" [] OTHER -> "S"

\* the datapoint lists of the lines of the given smiles under args, after
\* dataset.bert_init when the datapoints are self-supervised
InitialData(args, smiles) ==
  LET made == [i \in 1..Len(smiles) |->
                 MoleculeDatapoint(<<smiles[i]>>, args, None, FALSE).self]
  IN  IF args = None THEN {made}
      ELSE {init.data : init \in {r \in BertInitFrom(made, 1, Unseeded) : r.raised = NoError}}

\* two structurally identical datasets of single-atom molecules
ShuffleInit ==
  /\ SparseIdle /\ rm = NoFrame /\ bi = NoBertInit
  /\ call = NoCall /\ shuf = NoShuffles /\ ncalls = NoCalls
  /\ pyrand \in PyStates
  /\ \E args \in ShuffleArgs, n \in 0..MaxData :
       \E data \in InitialData(args, [i \in 1..n |-> AtomOf(i)]) :
         datasets = [ds \in DatasetIds |-> MoleculeDataset(data)]

\* dataset.shuffle(seed)
Shuffle(ds, seed) ==
  \E out \in DatasetShuffle(datasets[ds], seed, pyrand) :
    /\ datasets' = [datasets EXCEPT ![ds] = out.self]
    /\ pyrand' = out.py
    /\ call' = [op |-> "shuffle", ds |-> ds, raised |-> out.raised, arg |-> 0,
                result |-> <<>>]
    /\ shuf' = [shuf EXCEPT ![ds] = [done |-> TRUE, seed |-> seed,
                                     pre |-> DatasetSmiles(datasets[ds])]]
    /\ UNCHANGED <<sparseVars, ncalls, maskVars, bertVars>>

ShuffleNext == \E ds \in DatasetIds, seed \in OptSeeds : Shuffle(ds, seed)

SpecShuffle == ShuffleInit /\ [][ShuffleNext]_vars

\* the same, on molecules of more than one atom
ShuffleMasksInit ==
  /\ SparseIdle /\ rm = NoFrame /\ bi = NoBertInit
  /\ call = NoCall /\ shuf = NoShuffles /\ ncalls = NoCalls
  /\ pyrand \in PyStates
  /\ \E args \in ShuffleArgs, n \in 0..MaxData :
       \E data \in InitialData(args, [i \in 1..n |-> SmilesOf(i)]) :
         datasets = [ds \in DatasetIds |-> MoleculeDataset(data)]

SpecShuffleMasks == ShuffleMasksInit /\ [][ShuffleNext]_vars

\* two datasets whose last shuffle got the same seed and found the same order
SameSeededShuffle(a, b) ==
  /\ shuf[a].done /\ shuf[b].done
  /\ shuf[a].seed # None /\ shuf[a].seed = shuf[b].seed
  /\ shuf[a].pre = shuf[b].pre

IsPermutation(s, t) ==
  /\ Len(s) = Len(t)
  /\ \E p \in [1..Len(s) -> 1..Len(s)] :
       /\ \A i, j \in 1..Len(s) : i # j => p[i] # p[j]
       /\ \A i \in 1..Len(s) : s[i] = t[p[i]]

\* C5: shuffle(seed) with the same non-None seed on two structurally
\* identical datasets leaves both in the same order, whatever the state of
\* the random source before each call, and the result is a permutation of the
\* original datapoints.
C5_SeededShuffleOrder ==
  /\ \A a, b \in DatasetIds :
       SameSeededShuffle(a, b) => DatasetSmiles(datasets[a]) = DatasetSmiles(datasets[b])
  /\ \A a \in DatasetIds :
       shuf[a].done => IsPermutation(DatasetSmiles(datasets[a]), shuf[a].pre)

\* both datasets shuffled with one seed from one order, and the order changed
C5_Witness ==
  /\ SameSeededShuffle(1, 2)
  /\ Len(datasets[1].data) >= 2
  /\ DatasetSmiles(datasets[1]) # shuf[1].pre
  /\ call.op = "shuffle" /\ call.raised = NoError

\* C7: shuffle(seed) with the same non-None seed on two structurally
\* identical, initialized self-supervised datasets regenerates identical
\* masks for every datapoint, whatever was drawn before the call.
C7_SeededShuffleMasks ==
  \A a, b \in DatasetIds :
    (SameSeededShuffle(a, b) /\ datasets[a].bert_pretraining /\ call.raised = NoError) =>
      \A i \in 1..Len(datasets[a].data) :
        \A j \in 1..Len(datasets[b].data) :
          datasets[a].data[i].smiles = datasets[b].data[j].smiles =>
            datasets[a].data[i].mask = datasets[b].data[j].mask

(* chunk *)

ChunkInit ==
  /\ SparseIdle /\ rm = NoFrame /\ bi = NoBertInit
  /\ call = NoCall /\ shuf = NoShuffles /\ ncalls = NoCalls
  /\ pyrand \in PyStates
  /\ \E args \in ShuffleArgs, n \in 0..MaxData :
       \E data \in InitialData(args, [i \in 1..n |-> AtomOf(i)]) :
         datasets = [ds \in DatasetIds |->
                       IF ds = 1 THEN MoleculeDataset(data) ELSE MoleculeDataset(<<>>)]

\* dataset.chunk(num_chunks, seed)
Chunk(ds, num_chunks, seed) ==
  \E out \in DatasetChunk(datasets[ds], num_chunks, seed, pyrand) :
    /\ datasets' = [datasets EXCEPT ![ds] = out.self]
    /\ pyrand' = out.py
    /\ call' = [op |-> "chunk", ds |-> ds, raised |-> out.raised, arg |-> num_chunks,
                result |-> out.result]
    /\ shuf' = [shuf EXCEPT ![ds] = [done |-> TRUE, seed |-> seed,
                                     pre |-> DatasetSmiles(datasets[ds])]]
    /\ UNCHANGED <<sparseVars, ncalls, maskVars, bertVars>>

ChunkNext ==
  \E ds \in DatasetIds, num_chunks \in 0..MaxChunks, seed \in OptSeeds :
    Chunk(ds, num_chunks, seed)

SpecChunk == ChunkInit /\ [][ChunkNext]_vars

RECURSIVE SumLens(_)
SumLens(sets) == IF sets = <<>> THEN 0 ELSE Len(Head(sets).data) + SumLens(Tail(sets))

\* ceil(n / k) by its definition: the least c with c * k >= n
IsCeil(c, n, k) == c * k >= n /\ (c - 1) * k < n

\* C2: chunk(num_chunks, seed) on N datapoints, N >= 0 and num_chunks >= 1,
\* returns exactly num_chunks sub-datasets whose sizes sum to N, each of size
\* at most ceil(N / num_chunks); in order they are the consecutive slices of
\* the parent's post-shuffle sequence, so every datapoint is in exactly one.
C2_ChunkPartition ==
  (call.op = "chunk" /\ call.raised = NoError /\ call.arg >= 1) =>
    LET parent == datasets[call.ds].data
        N == Len(parent)
    IN  /\ Len(call.result) = call.arg
        /\ SumLens(call.result) = N
        /\ \A c \in 1..Len(call.result) :
             \E bound \in 0..N : /\ IsCeil(bound, N, call.arg)
                                 /\ Len(call.result[c].data) <= bound
        /\ Concat([c \in 1..Len(call.result) |-> call.result[c].data]) = parent
        /\ IsPermutation(DatasetSmiles(datasets[call.ds]), shuf[call.ds].pre)

\* a chunk call that split several datapoints unevenly, reordering them
C2_Witness ==
  /\ call.op = "chunk" /\ call.raised = NoError
  /\ call.arg >= 2
  /\ Len(datasets[call.ds].data) >= 2
  /\ Len(datasets[call.ds].data) % call.arg # 0
  /\ DatasetSmiles(datasets[call.ds]) # shuf[call.ds].pre

-----------------------------------------------------------------------------
(* MoleculeDataset.normalize_features.  The datasets of this part are      *)
(* homogeneous: every datapoint has a feature vector, or none has.         *)

\* most normalize_features calls on one dataset
MaxNormCalls == 2

RECURSIVE SumSeq(_)
SumSeq(s) == IF s = <<>> THEN 0 ELSE Head(s) + SumSeq(Tail(s))

\* the largest r with r * r <= x
ISqrt(x) == CHOOSE r \in 0..x : r * r <= x /\ (r + 1) * (r + 1) > x

\* StandardScaler(replace_nan_token=0).fit(X): per column the mean and the
\* standard deviation (in whole numbers), a zero deviation replaced by 1
ScalerFit(X) ==
  LET n == Len(X)
      Column(j) == [i \in 1..n |-> X[i][j]]
      Mean(j) == SumSeq(Column(j)) \div n
      Var(j) == SumSeq([i \in 1..n |-> (X[i][j] - Mean(j)) * (X[i][j] - Mean(j))]) \div n
      Std(j) == IF ISqrt(Var(j)) = 0 THEN 1 ELSE ISqrt(Var(j))
  IN  [means |-> [j \in 1..Len(X[1]) |-> Mean(j)],
       stds  |-> [j \in 1..Len(X[1]) |-> Std(j)]]

\* StandardScaler.transform of one feature vector
ScalerTransform(scaler, x) ==
  [j \in 1..Len(x) |-> (x[j] - scaler.means[j]) \div scaler.stds[j]]

\* np.vstack([d.features for d in self.data])
StackedFeatures(data) == [i \in 1..Len(data) |-> Val(data[i].features)]

\* lines 266-275 with the stored scaler ignored: fitted whenever none is given
ChooseScaler_AlwaysFit(self, scaler) ==
  IF scaler # None
    THEN [scaler |-> Val(scaler), fitted |-> FALSE]
    ELSE [scaler |-> ScalerFit(StackedFeatures(self.data)), fitted |-> TRUE]

\* lines 266-275: the scaler to apply, and whether it was fitted by this call
ChooseScaler(self, scaler) ==
  IF scaler # None
    THEN [scaler |-> Val(scaler), fitted |-> FALSE]
    ELSE IF self.scaler # None
      THEN [scaler |-> Val(self.scaler), fitted |-> FALSE]
      ELSE [scaler |-> ScalerFit(StackedFeatures(self.data)), fitted |-> TRUE]

\* MoleculeDataset.normalize_features: (self, result, fitted)
DatasetNormalizeFeatures(self, scaler) ==
  IF Len(self.data) = 0 \/ self.data[1].features = None
    THEN [self |-> self, result |-> None, fitted |-> FALSE]
    ELSE LET c == ChooseScaler(self, scaler)
         IN  [self |-> [self EXCEPT
                          !.scaler = Some(c.scaler),
                          !.data = [i \in 1..Len(self.data) |->
                                      [self.data[i] EXCEPT !.features =
                                         Some(ScalerTransform(c.scaler, Val(@)))]]],
              result |-> Some(c.scaler),
              fitted |-> c.fitted]

\* MoleculeDataset.features
DatasetFeatures(self) ==
  IF Len(self.data) = 0 \/ self.data[1].features = None THEN None
  ELSE Some([i \in 1..Len(self.data) |-> self.data[i].features])

\* feature vectors handed to the constructor, and a scaler loaded elsewhere
FeatureVectors == {None, Some(<<0>>), Some(<<4>>)}

LoadedScaler == [means |-> <<1>>, stds |-> <<2>>]

NormInit ==
  /\ SparseIdle /\ rm = NoFrame /\ bi = NoBertInit
  /\ call = NoCall /\ shuf = NoShuffles /\ ncalls = NoCalls /\ pyrand = Unseeded
  /\ \E n1, n2 \in 0..MaxData :
       \E f1 \in [1..n1 -> FeatureVectors], f2 \in [1..n2 -> FeatureVectors] :
         /\ \A i, j \in 1..n1 : (f1[i] = None) = (f1[j] = None)
         /\ \A i, j \in 1..n2 : (f2[i] = None) = (f2[j] = None)
         /\ datasets =
              <<MoleculeDataset([i \in 1..n1 |->
                  MoleculeDatapoint(<<SmilesOf(i), "1">>, None, f1[i], FALSE).self]),
                MoleculeDataset([i \in 1..n2 |->
                  MoleculeDatapoint(<<SmilesOf(i), "1">>, None, f2[i], FALSE).self])>>

\* the scalers a caller can pass: none, one loaded elsewhere, or the one
\* returned by a call on a dataset
ScalerArgs == {None, Some(LoadedScaler)} \cup {datasets[ds].scaler : ds \in DatasetIds}

\* dataset.normalize_features(scaler)
NormalizeFeatures(ds, scaler) ==
  LET r == DatasetNormalizeFeatures(datasets[ds], scaler)
  IN  /\ ncalls[ds] < MaxNormCalls
      /\ ncalls' = [ncalls EXCEPT ![ds] = @ + 1]
      /\ datasets' = [datasets EXCEPT ![ds] = r.self]
      /\ call' = [op |-> "normalize_features", ds |-> ds, raised |-> NoError,
                  arg |-> scaler, result |-> r.result, fitted |-> r.fitted,
                  before |-> datasets[ds]]
      /\ UNCHANGED <<sparseVars, pyrand, shuf, maskVars, bertVars>>

NormNext == \E ds \in DatasetIds : \E scaler \in ScalerArgs : NormalizeFeatures(ds, scaler)

SpecNorm == NormInit /\ [][NormNext]_vars

\* C6: on a non-empty dataset whose first datapoint has features,
\* normalize_features fits a new scaler only when no scaler is given and none
\* is stored; a given or a stored scaler is used without refitting; the call
\* returns the scaler it applied, the stored scaler equals the returned one
\* afterward, and the transform is applied exactly once to every datapoint's
\* feature vector.
C6_NormalizeContract ==
  (/\ call.op = "normalize_features"
   /\ Len(call.before.data) > 0
   /\ call.before.data[1].features # None) =>
    LET before == call.before
        after == datasets[call.ds]
    IN  /\ call.fitted = (call.arg = None /\ before.scaler = None)
        /\ call.arg # None => call.result = call.arg
        /\ (call.arg = None /\ before.scaler # None) => call.result = before.scaler
        /\ call.result # None
        /\ after.scaler = call.result
        /\ Len(after.data) = Len(before.data)
        /\ \A i \in 1..Len(after.data) :
             LET x == Val(before.data[i].features)
                 s == Val(call.result)
             IN  after.data[i].features =
                   Some([j \in 1..Len(x) |-> (x[j] - s.means[j]) \div s.stds[j]])

\* a second call without a scaler on a dataset that stored one, which
\* changed the features again
C6_Witness ==
  /\ call.op = "normalize_features"
  /\ Len(call.before.data) >= 2
  /\ call.before.data[1].features # None
  /\ call.arg = None /\ call.before.scaler # None
  /\ ~call.fitted
  /\ datasets[call.ds].data # call.before.data
  /\ Val(call.before.scaler) # ScalerFit(StackedFeatures(call.before.data))

-----------------------------------------------------------------------------
(* MoleculeDataset.bert_init and parallel_bert_init.  bi holds the call's  *)
(* position: which dataset, which path, the loop index of the sequential   *)
(* loops and, for Pool().map, the tasks still running, the datapoints the  *)
(* finished tasks returned and the order in which they finished.           *)

BertInitIdle(pc) ==
  [pc |-> pc, ds |-> 1, path |-> "none", i |-> 0, pending |-> {},
   returned |-> <<>>, finished |-> <<>>, pre |-> <<>>, raised |-> NoError]

\* the smiles of the datapoints of this part; "" is a molecule without atoms
BertSmiles == {"CC", "C", ""}

BertInitArgs == {None} \cup {BertArgs(type, 1) : type \in MaskTypes}

BertInitInit ==
  /\ SparseIdle /\ rm = NoFrame
  /\ call = NoCall /\ shuf = NoShuffles /\ ncalls = NoCalls /\ pyrand = Unseeded
  /\ bi = BertInitIdle("idle")
  /\ \E args \in BertInitArgs, n \in 0..MaxData :
       \E smiles \in [1..n -> BertSmiles] :
         /\ \A i, j \in 1..n : i # j => smiles[i] # smiles[j]
         /\ datasets =
              [ds \in DatasetIds |->
                 IF ds = 1
                   THEN MoleculeDataset([i \in 1..n |->
                          MoleculeDatapoint(<<smiles[i]>>, args, None, FALSE).self])
                   ELSE MoleculeDataset(<<>>)]

\* lines 180-190 and 193: dataset.bert_init(args) up to the choice of path
BertInitCall(ds, sequential) ==
  /\ bi.pc \in {"idle", "done", "raised"}
  /\ bi' = [BertInitIdle(IF sequential THEN "loop" ELSE "pool") EXCEPT
              !.ds = ds, !.path = IF sequential THEN "sequential" ELSE "pool",
              !.i = 1, !.pre = DatasetSmiles(datasets[ds])]
  /\ UNCHANGED <<sparseVars, dataVars, maskVars>>

\* lines 191-192 and 198-199: d.bert_init(args) for the next datapoint
BertInitLoopStep ==
  /\ bi.pc = "loop"
  /\ bi.i <= Len(datasets[bi.ds].data)
  /\ \E r \in DatapointBertInit(datasets[bi.ds].data[bi.i], pyrand) :
       /\ datasets' = [datasets EXCEPT ![bi.ds].data[bi.i] = r.self]
       /\ pyrand' = r.py
       /\ bi' = IF r.raised # NoError
                  THEN [bi EXCEPT !.pc = "raised", !.raised = r.raised]
                  ELSE [bi EXCEPT !.i = @ + 1]
  /\ UNCHANGED <<sparseVars, call, shuf, ncalls, maskVars>>

\* line 201: the loop is over
BertInitLoopEnd ==
  /\ bi.pc = "loop"
  /\ bi.i > Len(datasets[bi.ds].data)
  /\ bi' = [bi EXCEPT !.pc = "done"]
  /\ UNCHANGED <<sparseVars, dataVars, maskVars>>

\* line 196: Pool() is created and map hands out one task per datapoint
PoolMapStart ==
  /\ bi.pc = "pool"
  /\ bi' = [bi EXCEPT !.pc = "map",
                      !.pending = 1..Len(datasets[bi.ds].data),
                      !.returned = datasets[bi.ds].data]
  /\ UNCHANGED <<sparseVars, dataVars, maskVars>>

\* lines 196-199: Pool() or map raises OSError; the sequential loop runs instead
PoolOSError ==
  /\ bi.pc \in {"pool", "map"}
  /\ bi' = [bi EXCEPT !.pc = "loop", !.path = "fallback", !.i = 1,
                      !.pending = {}, !.returned = <<>>, !.finished = <<>>]
  /\ UNCHANGED <<sparseVars, dataVars, maskVars>>

\* parallel_bert_init in a worker, on its copy of datapoint i and with its
\* copy of the generator; an exception of the task is raised by map
PoolTask(i) ==
  /\ bi.pc = "map"
  /\ i \in bi.pending
  /\ \E r \in DatapointBertInit(datasets[bi.ds].data[i], pyrand) :
       bi' = IF r.raised # NoError
               THEN [bi EXCEPT !.pc = "raised", !.raised = r.raised, !.pending = {}]
               ELSE [bi EXCEPT !.pending = @ \ {i},
                               !.returned[i] = r.self,
                               !.finished = Append(@, i)]
  /\ UNCHANGED <<sparseVars, dataVars, maskVars>>

\* the list map returns, taken in the order the tasks finished
MapResult_AsFinished(returned, finished) ==
  [k \in 1..Len(finished) |-> returned[finished[k]]]

\* the list map returns: the tasks' results in the order of the inputs
MapResult(returned, finished) == returned

\* line 196: self.data = the list map returned
PoolMapEnd ==
  /\ bi.pc = "map"
  /\ bi.pending = {}
  /\ datasets' = [datasets EXCEPT ![bi.ds].data = MapResult(bi.returned, bi.finished)]
  /\ bi' = [bi EXCEPT !.pc = "done"]
  /\ UNCHANGED <<sparseVars, call, pyrand, shuf, ncalls, maskVars>>

BertInitNext ==
  \/ \E ds \in DatasetIds, sequential \in BOOLEAN : BertInitCall(ds, sequential)
  \/ BertInitLoopStep
  \/ BertInitLoopEnd
  \/ PoolMapStart
  \/ PoolOSError
  \/ \E i \in 1..MaxData : PoolTask(i)
  \/ PoolMapEnd

SpecBert == BertInitInit /\ [][BertInitNext]_vars

\* C8: on every path (sequential, pool with the tasks finishing in any
\* order, fallback after OSError) bert_init returns with the same datapoints
\* in the same order (by SMILES), each with vocab_targets and a mask of equal
\* length; an OSError of the pool never reaches the caller.
C8_BertInitOutcome ==
  /\ bi.pc = "done" =>
       LET data == datasets[bi.ds].data
       IN  /\ DatasetSmiles(datasets[bi.ds]) = bi.pre
           /\ \A i \in 1..Len(data) :
                /\ data[i].vocab_targets # None
                /\ data[i].mask # None
                /\ Len(Val(data[i].mask)) = Len(Val(data[i].vocab_targets))
  /\ bi.pc = "raised" => bi.raised # "OSError"

\* a pool run that returned after its tasks finished in reverse order
C8_Witness ==
  /\ bi.pc = "done"
  /\ bi.path = "pool"
  /\ Len(bi.finished) >= 2
  /\ bi.finished[1] > bi.finished[2]

=============================================================================
